---- MODULE Spec2Model ----
(***************************************************************************)
(* Model of src/investment_app.py, a Streamlit script.  Streamlit runs the *)
(* whole script top to bottom on every user interaction ("script run");    *)
(* st.session_state survives between runs, every other name is local to a  *)
(* run.  Text is modelled as a sequence of one-character strings, numbers  *)
(* as integers (prices in cents), a Python dict as a TLA+ function whose   *)
(* DOMAIN is the set of keys that are present.                             *)
(***************************************************************************)
EXTENDS Integers, Sequences, FiniteSets, TLC

VARIABLES
    session_state,   \* st.session_state: keys present and their values
    password_input,  \* value of the "Password:" text input in this run
    login_clicked,   \* st.button("Login") is True in this run
    ticker_input,    \* value of the sidebar ticker text input
    time_period,     \* value of the sidebar period selectbox
    analyze_clicked, \* st.sidebar.button("Analyze Stocks") is True in this run
    pc,              \* position of the script run ("idle": no run in progress)
    tickers,         \* local: the list the run works on
    selected_period, \* local: period code of the run
    idx,             \* local: loop index of the fetch loop
    stock_data,      \* local: [keys |-> insertion order, val |-> key -> entry]
    gate,            \* history: outcome of the access check of this run
    ops,             \* history: protected operations executed in this run
    log,             \* history: fetch attempts and sleeps of this run, in order
    out,             \* history: messages shown in this run, in order
    views,           \* history: result views rendered in this run
    cards,           \* overview: ticker -> [current_price, change_pct]
    pe_data,         \* comparison: tickers of the rows of the P/E bar chart
    earlier          \* history: tickers that had a snapshot in an earlier run

vars == <<session_state, password_input, login_clicked, ticker_input,
          time_period, analyze_clicked, pc, tickers, selected_period, idx,
          stock_data, gate, ops, log, out, views, cards, pe_data, earlier>>

----------------------------------------------------------------------------
(* Bounds and input sets *)

\* longest raw ticker text enumerated for the parser
MaxLen == 7

\* characters of a raw ticker text: a lower-case and an upper-case letter,
\* whitespace and the separator
Chars == {"a", "B", " ", ","}

\* line 20
CORRECT_PASSWORD == "Invest2026"

PasswordTexts == {"Invest2026", "invest2026", ""}

\* line 59: value="AAPL, MSFT, GOOGL", written in the model's alphabet
DefaultTickerText == <<"a", ",", " ", "B">>

\* ticker texts the user types in the session model
TickerTexts ==
    { <<>>,
      <<" ", ",", " ">>,
      <<"a">>,
      <<"a", ",", " ", "B">>,
      <<"B", ",", "a", ",", "B">> }

\* lines 72-78
period_map ==
    [ l \in {"1 Year", "2 Years", "3 Years", "5 Years", "Year-to-Date"} |->
        CASE l = "1 Year"  -> "1y"
          [] l = "2 Years" -> "2y"
          [] l = "3 Years" -> "3y"
          [] l = "5 Years" -> "5y"
          [] OTHER         -> "ytd" ]

\* line 68: options[0] is the selectbox default
DefaultPeriodLabel == "1 Year"

\* labels the user selects in the session model
PeriodLabels == {"1 Year", "Year-to-Date"}

----------------------------------------------------------------------------
(* Input Collector: line 63 *)

UpperChar(c) == IF c = "a" THEN "A" ELSE c

Upper(t) == [i \in 1..Len(t) |-> UpperChar(t[i])]

RECURSIVE LStrip(_)
LStrip(t) == IF t # <<>> /\ Head(t) = " " THEN LStrip(Tail(t)) ELSE t

RECURSIVE RStrip(_)
RStrip(t) ==
    IF t # <<>> /\ t[Len(t)] = " " THEN RStrip(SubSeq(t, 1, Len(t) - 1)) ELSE t

\* str.strip()
Strip(t) == RStrip(LStrip(t))

\* str.split(","): always at least one token, empty tokens kept
RECURSIVE Split(_)
Split(s) ==
    IF \A i \in 1..Len(s) : s[i] # ","
    THEN <<s>>
    ELSE LET i == CHOOSE j \in 1..Len(s) :
                     s[j] = "," /\ \A k \in 1..(j - 1) : s[k] # ","
         IN  <<SubSeq(s, 1, i - 1)>> \o Split(SubSeq(s, i + 1, Len(s)))

NonEmptyToken(t) == Strip(t) # <<>>

\* tokens are upper-cased without being trimmed
ParseTickers_nostrip(text) ==
    LET kept == SelectSeq(Split(text), NonEmptyToken)
    IN  [i \in 1..Len(kept) |-> Upper(kept[i])]

\* [t.strip().upper() for t in ticker_input.split(",") if t.strip()]
ParseTickers(text) ==
    LET kept == SelectSeq(Split(text), NonEmptyToken)
    IN  [i \in 1..Len(kept) |-> Upper(Strip(kept[i]))]

----------------------------------------------------------------------------
(* Dictionaries *)

\* {} for a mapping with string keys
EmptyInfo == [k \in {} |-> 0]

\* dict.get(key, default)
Get(d, k, default) == IF k \in DOMAIN d THEN d[k] ELSE default

\* stock_data = {} (line 100): no key, empty insertion order
EmptyStockData == [keys |-> <<>>, val |-> [k \in {} |-> 0]]

\* stock_data[ticker] = entry: a new key goes last, an existing key keeps
\* its place and gets the new value
Put(sd, k, e) ==
    [keys |-> IF k \in DOMAIN sd.val THEN sd.keys ELSE Append(sd.keys, k),
     val  |-> [x \in (DOMAIN sd.val) \cup {k} |->
                 IF x = k THEN e ELSE sd.val[x]]]

\* what a finished run leaves on screen is stale once the next run starts
Age(sd) ==
    [keys |-> sd.keys,
     val  |-> [x \in DOMAIN sd.val |-> [sd.val[x] EXCEPT !.fresh = FALSE]]]

----------------------------------------------------------------------------
(* Upstream provider: what yf.Ticker(t).info / .history(period) may return *)

UpstreamInfos ==
    { EmptyInfo,
      [currentPrice |-> 1200, previousClose |-> 1000, trailingPE |-> 28],
      [previousClose |-> 0, trailingPE |-> 150] }

UpstreamHistories == { <<>>, <<900, 1100>> }

\* how the statements fetch (stock.financials, stock.balance_sheet) end
StatementOutcomes == {"ok", "financials_raise", "balance_sheet_raise"}

----------------------------------------------------------------------------
(* Derived metrics and view filters *)

\* line 353: pe < 100
PE_MAX == 100

\* a Python float quotient, kept exact as numerator over denominator
Frac(n, d) == [num |-> n, den |-> d]

\* lines 166-168
current_price(info, history) ==
    LET live == Get(info, "currentPrice", 0)
    IN  IF live = 0 /\ Len(history) > 0 THEN history[Len(history)] ELSE live

\* the guard previous_close != 0 in place of previous_close > 0
change_pct_nonzero(info, history) ==
    LET previous_close == Get(info, "previousClose", 0)
        change == current_price(info, history) - previous_close
    IN  IF previous_close # 0 THEN Frac(change * 100, previous_close)
        ELSE Frac(0, 1)

\* lines 170-172
change_pct(info, history) ==
    LET previous_close == Get(info, "previousClose", 0)
        change == current_price(info, history) - previous_close
    IN  IF previous_close > 0 THEN Frac(change * 100, previous_close)
        ELSE Frac(0, 1)

\* the filter pe <= 100 in place of pe < 100
PEIncluded_le(info) ==
    /\ "trailingPE" \in DOMAIN info
    /\ info["trailingPE"] # 0
    /\ info["trailingPE"] > 0
    /\ info["trailingPE"] <= PE_MAX

\* lines 352-353: pe = info.get('trailingPE', None);
\* if pe and pe > 0 and pe < 100
PEIncluded(info) ==
    /\ "trailingPE" \in DOMAIN info
    /\ info["trailingPE"] # 0
    /\ info["trailingPE"] > 0
    /\ info["trailingPE"] < PE_MAX

\* lines 349-357: the rows of the P/E chart, in stock_data order
PEData(sd) ==
    LET keep(k) == PEIncluded(sd.val[k].info)
    IN  SelectSeq(sd.keys, keep)

\* lines 160-172: one card per entry
OverviewCards(sd) ==
    [k \in DOMAIN sd.val |->
        [current_price |-> current_price(sd.val[k].info, sd.val[k].history),
         change_pct    |-> change_pct(sd.val[k].info, sd.val[k].history)]]

----------------------------------------------------------------------------
(* Messages and history records *)

Msg(kind, ticker) == [kind |-> kind, ticker |-> ticker]

FetchEvent(i, t, outcome) ==
    [op |-> "fetch", idx |-> i, ticker |-> t, outcome |-> outcome]

SleepEvent(i, t) ==
    [op |-> "sleep", idx |-> i, ticker |-> t, outcome |-> "slept"]

HasKey(k) == k \in session_state.keys

----------------------------------------------------------------------------
(* Session start *)

\* a new browser session: empty session_state, widgets at their defaults,
\* the first script run about to begin
Init ==
    /\ session_state = [keys |-> {}, password_correct |-> FALSE,
                        analyze |-> FALSE, tickers |-> <<>>, period |-> ""]
    /\ password_input = ""
    /\ login_clicked = FALSE
    /\ ticker_input = DefaultTickerText
    /\ time_period = DefaultPeriodLabel
    /\ analyze_clicked = FALSE
    /\ pc = "check_password"
    /\ tickers = <<>>
    /\ selected_period = ""
    /\ idx = 0
    /\ stock_data = EmptyStockData
    /\ gate = "none"
    /\ ops = {}
    /\ log = <<>>
    /\ out = <<>>
    /\ views = {}
    /\ cards = [k \in {} |-> 0]
    /\ pe_data = <<>>
    /\ earlier = {}

\* a script run starts from the top: the locals and the page of the run
\* before are gone, session_state is kept
BeginRun ==
    /\ pc' = "check_password"
    /\ tickers' = <<>>
    /\ selected_period' = ""
    /\ idx' = 0
    /\ stock_data' = Age(stock_data)
    /\ gate' = "none"
    /\ ops' = {}
    /\ log' = <<>>
    /\ out' = <<>>
    /\ views' = {}
    /\ cards' = [k \in {} |-> 0]
    /\ pe_data' = <<>>
    /\ earlier' = earlier \cup DOMAIN stock_data.val

----------------------------------------------------------------------------
(* User interactions: each one triggers a script run *)

\* the password page is on screen: the user edits the password and may
\* press Login (lines 32-36)
UserLogin ==
    /\ pc = "idle"
    /\ gate = "locked"
    /\ \E text \in PasswordTexts, click \in BOOLEAN :
          /\ password_input' = text
          /\ login_clicked' = click
    /\ analyze_clicked' = FALSE
    /\ BeginRun
    /\ UNCHANGED <<session_state, ticker_input, time_period>>

\* the dashboard is on screen: the user edits the sidebar widgets and may
\* press Analyze Stocks (lines 57-83)
UserSidebar ==
    /\ pc = "idle"
    /\ gate = "open"
    /\ \E text \in TickerTexts, label \in PeriodLabels, click \in BOOLEAN :
          /\ ticker_input' = text
          /\ time_period' = label
          /\ analyze_clicked' = click
    /\ login_clicked' = FALSE
    /\ BeginRun
    /\ UNCHANGED <<session_state, password_input>>

----------------------------------------------------------------------------
(* Access gate: lines 16-47 *)

\* the flag is set to False on every run, not only when the key is missing
FlagAtCheck_reset == FALSE

\* lines 22-25: the flag as read at the access check, False when the key
\* is not in session_state yet
FlagAtCheck ==
    IF HasKey("password_correct") THEN session_state.password_correct
    ELSE FALSE

\* check_password() and what the script does with a False result: `stopped`
\* is where the run goes then
CheckPasswordThen(stopped) ==
    /\ pc = "check_password"
    /\ LET flag == FlagAtCheck
           ss1  == [session_state EXCEPT
                       !.keys = @ \cup {"password_correct"},
                       !.password_correct = flag]
       IN  IF flag
           THEN \* line 26: return True
                /\ session_state' = ss1
                /\ gate' = "open"
                /\ pc' = "sidebar"
                /\ UNCHANGED <<password_input, login_clicked, ticker_input,
                               time_period, analyze_clicked, tickers,
                               selected_period, idx, stock_data, ops, log,
                               out, views, cards, pe_data, earlier>>
           ELSE IF login_clicked /\ password_input = CORRECT_PASSWORD
           THEN \* lines 38-39: set the flag, st.rerun() ends this run and
                \* starts the next one with no button pressed
                /\ session_state' = [ss1 EXCEPT !.password_correct = TRUE]
                /\ login_clicked' = FALSE
                /\ BeginRun
                /\ UNCHANGED <<password_input, ticker_input, time_period,
                               analyze_clicked>>
           ELSE \* lines 41, 43, 47: return False, st.stop()
                /\ session_state' = ss1
                /\ gate' = "locked"
                /\ out' = (out \o <<Msg("password_prompt", <<>>)>>)
                          \o (IF login_clicked
                              THEN <<Msg("error_incorrect_password", <<>>)>>
                              ELSE <<>>)
                /\ pc' = stopped
                /\ UNCHANGED <<password_input, login_clicked, ticker_input,
                               time_period, analyze_clicked, tickers,
                               selected_period, idx, stock_data, ops, log,
                               views, cards, pe_data, earlier>>

\* the script goes on after a False result (st.stop() left out)
CheckPassword_nostop == CheckPasswordThen("sidebar")

\* lines 46-47: if not check_password(): st.stop()
CheckPassword == CheckPasswordThen("idle")

----------------------------------------------------------------------------
(* Sidebar, submit and the start of the analysis: lines 49-102 *)

\* the snapshots are kept from the run before instead of starting empty
NewStockData_keep(old) == old

\* line 100: stock_data = {}
NewStockData(old) == EmptyStockData

\* lines 49-102 and 370-394: parse the sidebar input, handle the Analyze
\* button, then either start the analysis or show the welcome screen
SidebarAndSubmit ==
    /\ pc = "sidebar"
    /\ LET parsed == ParseTickers(ticker_input)
           period == period_map[time_period]
           ss1 == IF analyze_clicked /\ parsed # <<>>
                  THEN \* lines 87-89
                       [session_state EXCEPT
                           !.keys = @ \cup {"analyze", "tickers", "period"},
                           !.analyze = TRUE,
                           !.tickers = parsed,
                           !.period = period]
                  ELSE session_state
           out1 == IF analyze_clicked /\ parsed = <<>>
                   THEN \* line 85
                        Append(out, Msg("error_no_ticker", <<>>))
                   ELSE out
           ops1 == ops \cup {"parse"}
                       \cup (IF analyze_clicked /\ parsed # <<>>
                             THEN {"submit"} ELSE {})
       IN  /\ session_state' = ss1
           /\ ops' = ops1
           /\ IF "analyze" \in ss1.keys /\ ss1.analyze
              THEN \* lines 92-102
                   /\ tickers' = ss1.tickers
                   /\ selected_period' = ss1.period
                   /\ stock_data' = NewStockData(stock_data)
                   /\ idx' = 0
                   /\ out' = out1
                   /\ pc' = IF Len(ss1.tickers) > 0 THEN "fetch"
                            ELSE "after_loop"
              ELSE \* lines 370-394: welcome screen
                   /\ tickers' = parsed
                   /\ selected_period' = period
                   /\ out' = Append(out1, Msg("welcome", <<>>))
                   /\ pc' = "idle"
                   /\ UNCHANGED <<idx, stock_data>>
    /\ UNCHANGED <<password_input, login_clicked, ticker_input, time_period,
                   analyze_clicked, gate, log, views, cards, pe_data,
                   earlier>>

----------------------------------------------------------------------------
(* Market data fetcher: lines 104-133 *)

Entry(info, history) == [info |-> info, history |-> history, fresh |-> TRUE]

\* the entry is stored whenever the info is non-empty (history not checked)
ValidData_infoonly(info, history) == DOMAIN info # {}

\* line 114: len(history) > 0 and info
ValidData(info, history) == Len(history) > 0 /\ DOMAIN info # {}

\* the body of the try block for one symbol and the except clause: the
\* outcome of the upstream calls decides between insert and warning
FetchSymbol ==
    /\ pc = "fetch"
    /\ idx < Len(tickers)
    /\ LET ticker == tickers[idx + 1]
           failed(outcome, kind) ==
               /\ stock_data' = stock_data
               /\ log' = Append(log, FetchEvent(idx, ticker, outcome))
               /\ out' = Append(out, Msg(kind, ticker))
       IN  \/ \* line 110 raises
              failed("info_raise", "warning_could_not_fetch")
           \/ \* line 111 raises
              failed("history_raise", "warning_could_not_fetch")
           \/ \E info \in UpstreamInfos, history \in UpstreamHistories :
                 IF ValidData(info, history)
                 THEN \E st \in StatementOutcomes :
                         IF st = "ok"
                         THEN /\ stock_data' =
                                    Put(stock_data, ticker, Entry(info, history))
                              /\ log' = Append(log,
                                               FetchEvent(idx, ticker, "ok"))
                              /\ out' = out
                         ELSE \* lines 119-120 raise while the entry is built
                              failed(st, "warning_could_not_fetch")
                 ELSE \* line 123
                      failed("no_data", "warning_no_data")
    /\ ops' = ops \cup {"fetch"}
    /\ pc' = "sleep"
    /\ UNCHANGED <<session_state, password_input, login_clicked, ticker_input,
                   time_period, analyze_clicked, tickers, selected_period,
                   idx, gate, views, cards, pe_data,
                   earlier>>

\* the loop goes on without the delay being recorded
ProgressAndSleep_nosleep ==
    /\ pc = "sleep"
    /\ idx' = idx + 1
    /\ pc' = IF idx + 1 < Len(tickers) THEN "fetch" ELSE "after_loop"
    /\ UNCHANGED <<session_state, password_input, login_clicked, ticker_input,
                   time_period, analyze_clicked, tickers, selected_period,
                   stock_data, gate, ops, log, out, views, cards, pe_data,
                   earlier>>

\* lines 128-133: progress bar, time.sleep(1), next iteration
ProgressAndSleep ==
    /\ pc = "sleep"
    /\ log' = Append(log, SleepEvent(idx, tickers[idx + 1]))
    /\ idx' = idx + 1
    /\ pc' = IF idx + 1 < Len(tickers) THEN "fetch" ELSE "after_loop"
    /\ UNCHANGED <<session_state, password_input, login_clicked, ticker_input,
                   time_period, analyze_clicked, tickers, selected_period,
                   stock_data, gate, ops, out, views, cards, pe_data,
                   earlier>>

----------------------------------------------------------------------------
(* Total-failure check and the four views: lines 135-368 *)

ViewNames == {"overview", "price_charts", "financials", "comparison"}

\* the views are rendered even when nothing was fetched
CheckAnyData_nostop ==
    /\ pc = "after_loop"
    /\ out' = IF Len(stock_data.keys) = 0
              THEN Append(out, Msg("error_total_failure", <<>>)) ELSE out
    /\ pc' = "render"
    /\ UNCHANGED <<session_state, password_input, login_clicked, ticker_input,
                   time_period, analyze_clicked, tickers, selected_period,
                   idx, stock_data, gate, ops, log, views, cards, pe_data,
                   earlier>>

\* lines 138-148: if len(stock_data) == 0: st.error(...); st.stop()
CheckAnyData ==
    /\ pc = "after_loop"
    /\ IF Len(stock_data.keys) = 0
       THEN /\ out' = Append(out, Msg("error_total_failure", <<>>))
            /\ pc' = "idle"
       ELSE /\ out' = out
            /\ pc' = "render"
    /\ UNCHANGED <<session_state, password_input, login_clicked, ticker_input,
                   time_period, analyze_clicked, tickers, selected_period,
                   idx, stock_data, gate, ops, log, views, cards, pe_data,
                   earlier>>

\* lines 150-368: the four tabs
RenderViews ==
    /\ pc = "render"
    /\ views' = ViewNames
    /\ cards' = OverviewCards(stock_data)
    /\ pe_data' = PEData(stock_data)
    /\ ops' = ops \cup {"render"}
    /\ pc' = "idle"
    /\ UNCHANGED <<session_state, password_input, login_clicked, ticker_input,
                   time_period, analyze_clicked, tickers, selected_period,
                   idx, stock_data, gate, log, out, earlier>>

----------------------------------------------------------------------------
(* The session *)

Next ==
    \/ UserLogin
    \/ UserSidebar
    \/ CheckPassword
    \/ SidebarAndSubmit
    \/ FetchSymbol
    \/ ProgressAndSleep
    \/ CheckAnyData
    \/ RenderViews

Spec == Init /\ [][Next]_vars

----------------------------------------------------------------------------
(* Properties of the session *)

Range(f) == {f[i] : i \in DOMAIN f}

Keys == DOMAIN stock_data.val

FetchEvents == SelectSeq(log, LAMBDA e : e.op = "fetch")

FailedEvents == SelectSeq(log, LAMBDA e : e.op = "fetch" /\ e.outcome # "ok")

SucceededTickers ==
    {log[i].ticker : i \in {j \in 1..Len(log) :
                              log[j].op = "fetch" /\ log[j].outcome = "ok"}}

Warnings ==
    SelectSeq(out, LAMBDA m : m.kind \in {"warning_could_not_fetch",
                                          "warning_no_data"})

\* the run has reached the analysis branch (line 92 onwards)
InAnalysis ==
    \/ pc \in {"fetch", "sleep", "after_loop", "render"}
    \/ pc = "idle" /\ "fetch" \in ops

\* the fetch loop of the run is over
LoopDone ==
    \/ pc \in {"after_loop", "render"}
    \/ pc = "idle" /\ "fetch" \in ops

\* C1 (as amended): every key of stock_data holds an entry with a non-empty
\* history and a non-empty info, and during and after the fetch loop the keys
\* are exactly the symbols for which some attempt of this run succeeded: an
\* attempt that fails (info, history or statements raise, history or info
\* empty) inserts nothing.
C1_NoPartialEntry ==
    /\ \A k \in Keys :
          /\ Len(stock_data.val[k].history) > 0
          /\ DOMAIN stock_data.val[k].info # {}
    /\ InAnalysis => Keys = SucceededTickers

\* C1 as stated: a symbol with a failed attempt in this run is never a key.
C1_FailedSymbolNeverKey ==
    InAnalysis =>
        \A i \in 1..Len(log) :
            (log[i].op = "fetch" /\ log[i].outcome # "ok")
                => log[i].ticker \notin Keys

C1_Witness ==
    /\ pc = "idle"
    /\ LoopDone
    /\ Keys # {}
    /\ \E i \in 1..Len(log) : log[i].outcome = "financials_raise"
    /\ \E i \in 1..Len(log) : log[i].outcome = "no_data"

\* C2: in a run whose access check found the flag false, the run stops at
\* the check: nothing is parsed, nothing is written to the session request,
\* nothing is fetched and no view is rendered.  Conversely a run is past the
\* check only with the flag set.
C2_PasswordGated ==
    /\ gate = "locked" =>
          /\ pc = "idle"
          /\ ops = {}
          /\ log = <<>>
          /\ views = {}
          /\ tickers = <<>>
    /\ (pc \in {"sidebar", "fetch", "sleep", "after_loop", "render"}
            \/ ops # {} \/ log # <<>> \/ views # {})
          => gate = "open" /\ session_state.password_correct

C2_Witness ==
    /\ gate = "locked"
    /\ pc = "idle"
    /\ login_clicked
    /\ password_input = "invest2026"
    /\ Msg("error_incorrect_password", <<>>) \in Range(out)

\* C3: a Login with a text other than the secret leaves session_state as it
\* is and the run locked; a Login with the secret sets the flag; the flag,
\* once true, stays true; and every access check made with the flag true
\* passes without showing the prompt.
C3_AccessGate ==
    /\ [][(pc = "check_password" /\ ~session_state.password_correct
              /\ login_clicked /\ password_input # CORRECT_PASSWORD)
            => (session_state' = session_state /\ gate' = "locked"
                   /\ pc' = "idle")]_vars
    /\ [][(pc = "check_password" /\ login_clicked
              /\ password_input = CORRECT_PASSWORD)
            => session_state'.password_correct]_vars
    /\ [][session_state.password_correct
            => session_state'.password_correct]_vars
    /\ [][(pc = "check_password" /\ session_state.password_correct)
            => (gate' = "open" /\ pc' = "sidebar" /\ out' = out)]_vars

C3_Witness ==
    /\ session_state.password_correct
    /\ gate = "open"
    /\ pc = "idle"
    /\ views # {}
    /\ ~analyze_clicked

\* C4: a run started by Analyze with a ticker text that parses to the empty
\* list shows the error and makes no upstream call.
C4_EmptySubmitNoFetch ==
    (gate = "open" /\ analyze_clicked /\ ParseTickers(ticker_input) = <<>>
        /\ pc # "sidebar")
      => /\ Msg("error_no_ticker", <<>>) \in Range(out)
         /\ log = <<>>
         /\ "fetch" \notin ops

\* C5: when every symbol of the request failed, the result is empty, the
\* run ends with the total-failure message and no view is rendered.
C5_TotalFailure ==
    /\ (LoopDone /\ Len(FailedEvents) = Len(FetchEvents)) =>
          /\ Keys = {}
          /\ views = {}
          /\ "render" \notin ops
          /\ pc \in {"after_loop", "idle"}
          /\ pc = "idle" =>
                /\ out # <<>>
                /\ out[Len(out)] = Msg("error_total_failure", <<>>)
                /\ Len(Warnings) = Len(tickers)
    /\ views # {} => Keys # {}

C5_Witness ==
    /\ pc = "idle"
    /\ LoopDone
    /\ Len(tickers) = 3
    /\ Len(FailedEvents) = 3
    /\ earlier # {}

\* C6: the log of a run is fetch(0), sleep(0), fetch(1), sleep(1), ... in
\* request order, one fetch and one sleep per listed position; the loop ends
\* only after all n positions were attempted and n sleeps made; and every
\* failed attempt, and no other, has produced a warning for its symbol.
C6_SequentialWithDelay ==
    InAnalysis =>
        /\ \A i \in 1..Len(log) :
              /\ log[i].idx = (i - 1) \div 2
              /\ log[i].op = (IF i % 2 = 1 THEN "fetch" ELSE "sleep")
              /\ log[i].ticker = tickers[log[i].idx + 1]
        /\ pc = "fetch" => Len(log) = 2 * idx
        /\ pc = "sleep" => Len(log) = 2 * idx + 1
        /\ LoopDone =>
              /\ Len(log) = 2 * Len(tickers)
              /\ Cardinality({i \in 1..Len(log) : log[i].op = "sleep"})
                    = Len(tickers)
        /\ Len(Warnings) = Len(FailedEvents)
        /\ \A i \in 1..Len(Warnings) :
              Warnings[i].ticker = FailedEvents[i].ticker

C6_Witness ==
    /\ pc = "idle"
    /\ Len(tickers) = 3
    /\ Len(log) = 6
    /\ log[1].outcome = "info_raise"
    /\ log[3].outcome = "ok"
    /\ log[5].outcome = "history_raise"

\* C8: during and after the analysis of a run the snapshot mapping holds
\* only entries fetched in this run, for symbols of the request the run
\* works on (the one kept in session_state).
C8_WholesaleReplace ==
    InAnalysis =>
        /\ tickers = session_state.tickers
        /\ \A k \in Keys :
              /\ stock_data.val[k].fresh
              /\ k \in Range(session_state.tickers)
              /\ k \in SucceededTickers
        /\ Len(stock_data.keys) = Cardinality(Keys)

C8_Witness ==
    /\ pc = "idle"
    /\ views # {}
    /\ analyze_clicked
    /\ \E k \in earlier : k \notin Keys
    /\ \E k \in earlier : k \in Keys

----------------------------------------------------------------------------
(* The input collector on every short ticker text *)

\* all texts of at most n characters
Texts(n) == UNION {[1..k -> Chars] : k \in 0..n}

\* an unlocked session with no request yet, its run at the sidebar
InitParse ==
    /\ session_state = [keys |-> {"password_correct"},
                        password_correct |-> TRUE,
                        analyze |-> FALSE, tickers |-> <<>>, period |-> ""]
    /\ password_input = CORRECT_PASSWORD
    /\ login_clicked = FALSE
    /\ ticker_input \in Texts(MaxLen)
    /\ time_period \in DOMAIN period_map
    /\ analyze_clicked = TRUE
    /\ pc = "sidebar"
    /\ tickers = <<>>
    /\ selected_period = ""
    /\ idx = 0
    /\ stock_data = EmptyStockData
    /\ gate = "open"
    /\ ops = {}
    /\ log = <<>>
    /\ out = <<>>
    /\ views = {}
    /\ cards = [k \in {} |-> 0]
    /\ pe_data = <<>>
    /\ earlier = {}

SpecParse == InitParse /\ [][SidebarAndSubmit]_vars

CommaPositions(text) == {i \in 1..Len(text) : text[i] = ","}

\* a segment is named by the position before its first character
SegmentStarts(text) == {0} \cup CommaPositions(text)

SegmentEnd(text, b) ==
    LET later == {c \in CommaPositions(text) : c > b} \cup {Len(text) + 1}
    IN  CHOOSE c \in later : \A d \in later : c <= d

\* positions of the non-blank characters of the segment
SegmentBody(text, b) ==
    {i \in (b + 1)..(SegmentEnd(text, b) - 1) : text[i] # " "}

KeptSegments(text) == {b \in SegmentStarts(text) : SegmentBody(text, b) # {}}

Lowest(S) == CHOOSE x \in S : \A y \in S : x <= y

Highest(S) == CHOOSE x \in S : \A y \in S : x >= y

\* C7: the parsed list has one token per comma-separated segment that holds
\* a non-blank character, in the order of the segments, repeated symbols
\* kept; each token is its segment from the first to the last non-blank
\* character, upper-cased.  A submit with a non-empty list stores exactly
\* this list as the request.
C7_ParseRequest ==
    pc # "sidebar" =>
        LET text == ticker_input
            kept == KeptSegments(text)
            rank(b) == Cardinality({c \in kept : c <= b})
        IN  /\ Len(tickers) = Cardinality(kept)
            /\ \A b \in kept :
                  LET lo == Lowest(SegmentBody(text, b))
                      hi == Highest(SegmentBody(text, b))
                  IN  tickers[rank(b)] =
                          [i \in 1..(hi - lo + 1) |->
                              UpperChar(text[lo + i - 1])]
            /\ kept # {} => session_state.tickers = tickers

\* " a, ,B " gives ["A", "B"]
C7_Witness ==
    /\ pc # "sidebar"
    /\ ticker_input = <<" ", "a", ",", " ", ",", "B", " ">>
    /\ tickers = << <<"A">>, <<"B">> >>

----------------------------------------------------------------------------
(* The views on a range of snapshots *)

ViewSymbols == { <<"A">>, <<"B">>, <<"A", "B">> }

\* the orders in which the symbols of S can have been inserted
Orders(S) ==
    {q \in UNION {[1..n -> S] : n \in 1..Cardinality(S)} :
        \A i, j \in 1..Len(q) : i # j => q[i] # q[j]}

PEValues == {-5, 0, 28, 99, 100, 150}

\* infos that differ in the trailing PE, which may be missing
PEInfos ==
    {[currentPrice |-> 1200]}
        \cup {[currentPrice |-> 1200, trailingPE |-> v] : v \in PEValues}

\* infos that differ in the live price and the previous close, each of
\* which may be missing
PriceInfos ==
    {[k \in K \cup {"marketCap"} |->
         IF k = "currentPrice" THEN c
         ELSE IF k = "previousClose" THEN p ELSE 5] :
       K \in SUBSET {"currentPrice", "previousClose"},
       c \in {0, 1200}, p \in {-400, 0, 1000}}

PriceHistories == { <<900>>, <<900, 1100>> }

\* a run that fetched every symbol of its request and is about to render
ViewInit(keys, val) ==
    /\ session_state = [keys |-> {"password_correct", "analyze", "tickers",
                                  "period"},
                        password_correct |-> TRUE, analyze |-> TRUE,
                        tickers |-> keys, period |-> "1y"]
    /\ password_input = CORRECT_PASSWORD
    /\ login_clicked = FALSE
    /\ ticker_input = DefaultTickerText
    /\ time_period = DefaultPeriodLabel
    /\ analyze_clicked = TRUE
    /\ pc = "render"
    /\ tickers = keys
    /\ selected_period = "1y"
    /\ idx = Len(keys)
    /\ stock_data = [keys |-> keys, val |-> val]
    /\ gate = "open"
    /\ ops = {"parse", "submit", "fetch"}
    /\ log = [i \in 1..(2 * Len(keys)) |->
                IF i % 2 = 1
                THEN FetchEvent((i - 1) \div 2, keys[(i + 1) \div 2], "ok")
                ELSE SleepEvent((i - 1) \div 2, keys[i \div 2])]
    /\ out = <<>>
    /\ views = {}
    /\ cards = [k \in {} |-> 0]
    /\ pe_data = <<>>
    /\ earlier = {}

InitViews ==
    \/ \E keys \in Orders(ViewSymbols) :
          \E infos \in [Range(keys) -> PEInfos] :
             ViewInit(keys, [k \in Range(keys) |->
                                Entry(infos[k], <<900, 1100>>)])
    \/ \E keys \in Orders({<<"A">>, <<"B">>}) :
          \E infos \in [Range(keys) -> PriceInfos],
             hists \in [Range(keys) -> PriceHistories] :
             ViewInit(keys, [k \in Range(keys) |-> Entry(infos[k], hists[k])])

SpecViews == InitViews /\ [][RenderViews]_vars

HasPE(k) == "trailingPE" \in DOMAIN stock_data.val[k].info

PEOf(k) == stock_data.val[k].info["trailingPE"]

\* C9 (as amended): the P/E chart holds exactly the fetched symbols that
\* have a trailing PE and whose PE is neither <= 0 nor >= 100, once each, in
\* snapshot order; a symbol without a trailing PE is left out too.
C9_PEChart ==
    views # {} =>
        /\ Range(pe_data) =
              {k \in Keys : HasPE(k) /\ ~(PEOf(k) <= 0 \/ PEOf(k) >= 100)}
        /\ \A i, j \in 1..Len(pe_data) :
              i < j =>
                 \E a, b \in 1..Len(stock_data.keys) :
                    /\ a < b
                    /\ stock_data.keys[a] = pe_data[i]
                    /\ stock_data.keys[b] = pe_data[j]

\* C9 as stated: the symbols with PE <= 0 or PE >= 100 are left out and all
\* other fetched symbols are in the chart.
C9_AllOthersIncluded ==
    views # {} =>
        Range(pe_data) =
            Keys \ {k \in Keys : HasPE(k) /\ (PEOf(k) <= 0 \/ PEOf(k) >= 100)}

\* PE 28, 150 and -5: only the first symbol is in the chart
C9_Witness ==
    /\ views # {}
    /\ stock_data.keys = << <<"A">>, <<"B">>, <<"A", "B">> >>
    /\ HasPE(<<"A">>) /\ PEOf(<<"A">>) = 28
    /\ HasPE(<<"B">>) /\ PEOf(<<"B">>) = 150
    /\ HasPE(<<"A", "B">>) /\ PEOf(<<"A", "B">>) = -5
    /\ pe_data = << <<"A">> >>

\* C10: the card's change percentage is 0 when previousClose is missing or
\* <= 0; otherwise it is (currentPrice - previousClose) / previousClose * 100
\* with currentPrice the live price, or the last close of the history when
\* the live price is missing or 0.
C10_ChangePct ==
    views # {} =>
        \A k \in Keys :
            LET info == stock_data.val[k].info
                hist == stock_data.val[k].history
                prev == IF "previousClose" \in DOMAIN info
                        THEN info["previousClose"] ELSE 0
                cur  == IF "currentPrice" \in DOMAIN info
                           /\ info["currentPrice"] # 0
                        THEN info["currentPrice"] ELSE hist[Len(hist)]
                pct  == cards[k].change_pct
            IN  /\ cards[k].current_price = cur
                /\ pct.den # 0
                /\ prev <= 0 => pct.num = 0
                /\ prev > 0 => pct.num * prev = (cur - prev) * 100 * pct.den

C10_Witness ==
    /\ views # {}
    /\ \E k \in Keys :
          /\ "previousClose" \notin DOMAIN stock_data.val[k].info
          /\ "currentPrice" \in DOMAIN stock_data.val[k].info
          /\ cards[k].current_price = 1200
          /\ cards[k].change_pct.num = 0
    /\ \E k \in Keys :
          /\ "previousClose" \in DOMAIN stock_data.val[k].info
          /\ stock_data.val[k].info["previousClose"] = 1000
          /\ "currentPrice" \notin DOMAIN stock_data.val[k].info
          /\ cards[k].current_price = 1100
          /\ cards[k].change_pct = Frac(10000, 1000)

====
